---- MODULE Spec2Model ----
(***************************************************************************)
(* Model of csv-to-json (src/csv-to-json/src/main.rs): the handler        *)
(* convert_csv and the streaming pipeline it answers with,                 *)
(* parse_csv_records -> serialize_json_seq.                                *)
(*                                                                         *)
(* Bytes are integers 0..255, byte strings are sequences of bytes.  The    *)
(* CSV reader built at main.rs:93-98 (csv_async, default terminator,       *)
(* double-quote escaping, has_headers, flexible) is modelled by the state  *)
(* machine of csv-core and the header-keyed map deserializer of csv.       *)
(* A header row that fails to decode (invalid UTF-8, or a read error       *)
(* before the row is complete) is the stream's first and only item.        *)
(***************************************************************************)
EXTENDS Integers, Sequences, FiniteSets, TLC

(* ------------------------------ bytes --------------------------------- *)
Comma     == 44
DQuote    == 34
SQuote    == 39
Tab       == 9
LF        == 10
CR        == 13
LBracket  == 91
RBracket  == 93
LBrace    == 123
RBrace    == 125
Colon     == 58
Backslash == 92
ByteA     == 97
ByteB     == 98
ByteX     == 120
BadByte   == 255

(* ------------------------------ bounds -------------------------------- *)
MaxRows == 2
MaxVals == 3

MaxRuns == 2

\* A parameter of the query string is the values given under its name, in
\* order, each value a string of characters: <<>> when the parameter is
\* absent, one value when it is given once.
None == <<>>

\* The parameter given once with the one-character value c.
Some(c) == <<  <<c>>  >>

RECURSIVE Concat(_)
Concat(chunks) ==
    IF chunks = <<>> THEN <<>> ELSE Head(chunks) \o Concat(Tail(chunks))

\* The element of a one-element set: what it is applied to is computed
\* once and then named.
TheOne(S) == CHOOSE x \in S : TRUE

Last(s) == s[Len(s)]

(* ---------------------- options (main.rs:52-68) ----------------------- *)
default_delimiter == Comma

default_quote == DQuote

\* Mutant: the quote parameter is not read.
CsvParseOptionsQuoteIgnored(qd, qq) ==
    [delimiter |-> IF qd = None THEN default_delimiter ELSE qd[1][1],
     quote     |-> default_quote]

\* The options of a query string that parses: the character given, and
\* by serde(default = ...) the default for an absent parameter.
CsvParseOptions(qd, qq) ==
    [delimiter |-> IF qd = None THEN default_delimiter ELSE qd[1][1],
     quote     |-> IF qq = None THEN default_quote ELSE qq[1][1]]

\* Mutant: the character's code point is used untruncated.
AsU8Untruncated(c) == c

\* `delimiter as u8`, `quote as u8` (main.rs:94-95).
AsU8(c) == c % 256

(* -------------------- CsvRecord (main.rs:70-77) ----------------------- *)
\* Ord of String: bytewise lexicographic order.
LexLess(s, t) ==
    \E i \in 1..(Len(t)) :
        /\ \A j \in 1..(i - 1) : j <= Len(s) /\ s[j] = t[j]
        /\ \/ i = Len(s) + 1
           \/ i <= Len(s) /\ s[i] < t[i]

\* BTreeMap::insert: the map is kept as its entries in key order; an
\* existing key has its value replaced.
BTreeInsert(m, k, v) ==
    SelectSeq(m, LAMBDA e : LexLess(e[1], k))
        \o << <<k, v>> >>
        \o SelectSeq(m, LAMBDA e : LexLess(k, e[1]))

HasKey(m, k) == \E i \in 1..Len(m) : m[i][1] = k

Get(m, k) == m[CHOOSE i \in 1..Len(m) : m[i][1] = k][2]

Keys(m) == [i \in 1..Len(m) |-> m[i][1]]

(* ------------- serde_json::to_writer (main.rs:123, 132) --------------- *)
Hex(n) == IF n < 10 THEN 48 + n ELSE 87 + n

EscapeByte(c) ==
    IF c = DQuote THEN <<Backslash, DQuote>>
    ELSE IF c = Backslash THEN <<Backslash, Backslash>>
    ELSE IF c = 8 THEN <<Backslash, 98>>
    ELSE IF c = Tab THEN <<Backslash, 116>>
    ELSE IF c = LF THEN <<Backslash, 110>>
    ELSE IF c = 12 THEN <<Backslash, 102>>
    ELSE IF c = CR THEN <<Backslash, 114>>
    ELSE IF c < 32 THEN <<Backslash, 117, 48, 48, Hex(c \div 16), Hex(c % 16)>>
    ELSE <<c>>

RECURSIVE EscapeStr(_)
EscapeStr(s) ==
    IF s = <<>> THEN <<>> ELSE EscapeByte(Head(s)) \o EscapeStr(Tail(s))

JsonString(s) == <<DQuote>> \o EscapeStr(s) \o <<DQuote>>

RECURSIVE JsonEntries(_)
JsonEntries(m) ==
    IF m = <<>> THEN <<>>
    ELSE JsonString(m[1][1]) \o <<Colon>> \o JsonString(m[1][2])
            \o (IF Len(m) > 1 THEN <<Comma>> ELSE <<>>)
            \o JsonEntries(Tail(m))

\* A value of the generic T: a CsvRecord (its map), or a value whose
\* Serialize implementation fails.
RecordValue(m) == [ser |-> TRUE, map |-> m]

Unserializable == [ser |-> FALSE, map |-> <<>>]

\* [ok, bytes]: the bytes written to the buffer, or a failure.
ToJson(v) ==
    IF ~v.ser
    THEN [ok |-> FALSE, bytes |-> <<>>]
    ELSE [ok |-> TRUE, bytes |-> <<LBrace>> \o JsonEntries(v.map) \o <<RBrace>>]

(* ---- csv reader: AsyncReaderBuilder ... create_deserializer (93-98) --- *)
\* TryStreamExt::into_async_read: the chunks' bytes in order up to the
\* first error item; an empty chunk contributes nothing.
RECURSIVE InputBytes(_)
InputBytes(input) ==
    IF input = <<>> \/ ~Head(input).ok THEN <<>>
    ELSE Head(input).bytes \o InputBytes(Tail(input))

InputFails(input) == \E i \in 1..Len(input) : ~input[i].ok

\* Mutant: only "\n" ends a row.
IsTermLfOnly(c) == c = LF

\* Default terminator: "\r", "\n" or "\r\n".
IsTerm(c) == c = LF \/ c = CR

\* The state the reader is left in by a record terminator.
AfterTerm(c) == IF c = CR THEN "CRLF" ELSE "StartRecord"

\* Mutant: a row terminator ends the row inside a quoted field too.
TransSplittingQuoted(st, c, d, q) ==
    CASE st = "CRLF" ->
            IF c = LF THEN [st |-> "StartRecord", act |-> "discard"]
            ELSE [st |-> "StartRecord", act |-> "eps"]
      [] st = "StartRecord" ->
            IF IsTerm(c) THEN [st |-> "StartRecord", act |-> "discard"]
            ELSE [st |-> "StartField", act |-> "eps"]
      [] st = "StartField" ->
            IF c = q THEN [st |-> "InQuotedField", act |-> "discard"]
            ELSE IF c = d THEN [st |-> "StartField", act |-> "field"]
            ELSE IF IsTerm(c) THEN [st |-> AfterTerm(c), act |-> "record"]
            ELSE [st |-> "InField", act |-> "copy"]
      [] st = "InField" ->
            IF c = d THEN [st |-> "StartField", act |-> "field"]
            ELSE IF IsTerm(c) THEN [st |-> AfterTerm(c), act |-> "record"]
            ELSE [st |-> "InField", act |-> "copy"]
      [] st = "InQuotedField" ->
            IF c = q THEN [st |-> "InDoubleEscapedQuote", act |-> "discard"]
            ELSE IF IsTerm(c) THEN [st |-> AfterTerm(c), act |-> "record"]
            ELSE [st |-> "InQuotedField", act |-> "copy"]
      [] st = "InDoubleEscapedQuote" ->
            IF c = q THEN [st |-> "InQuotedField", act |-> "copy"]
            ELSE IF c = d THEN [st |-> "StartField", act |-> "field"]
            ELSE IF IsTerm(c) THEN [st |-> AfterTerm(c), act |-> "record"]
            ELSE [st |-> "InField", act |-> "copy"]
      [] OTHER -> [st |-> "End", act |-> "discard"]

\* csv-core's transition on byte c (quoting on, double_quote on, no escape
\* character, no comment character), with its epsilon moves into the
\* non-final states taken.  act: "discard" and "copy" consume c, "field"
\* consumes c and ends the field, "record" consumes c and ends the field
\* and the record, "eps" does not consume c.
Trans(st, c, d, q) ==
    CASE st = "CRLF" ->
            IF c = LF THEN [st |-> "StartRecord", act |-> "discard"]
            ELSE [st |-> "StartRecord", act |-> "eps"]
      [] st = "StartRecord" ->
            IF IsTerm(c) THEN [st |-> "StartRecord", act |-> "discard"]
            ELSE [st |-> "StartField", act |-> "eps"]
      [] st = "StartField" ->
            IF c = q THEN [st |-> "InQuotedField", act |-> "discard"]
            ELSE IF c = d THEN [st |-> "StartField", act |-> "field"]
            ELSE IF IsTerm(c) THEN [st |-> AfterTerm(c), act |-> "record"]
            ELSE [st |-> "InField", act |-> "copy"]
      [] st = "InField" ->
            IF c = d THEN [st |-> "StartField", act |-> "field"]
            ELSE IF IsTerm(c) THEN [st |-> AfterTerm(c), act |-> "record"]
            ELSE [st |-> "InField", act |-> "copy"]
      [] st = "InQuotedField" ->
            IF c = q THEN [st |-> "InDoubleEscapedQuote", act |-> "discard"]
            ELSE [st |-> "InQuotedField", act |-> "copy"]
      [] st = "InDoubleEscapedQuote" ->
            IF c = q THEN [st |-> "InQuotedField", act |-> "copy"]
            ELSE IF c = d THEN [st |-> "StartField", act |-> "field"]
            ELSE IF IsTerm(c) THEN [st |-> AfterTerm(c), act |-> "record"]
            ELSE [st |-> "InField", act |-> "copy"]
      [] OTHER -> [st |-> "End", act |-> "discard"]

\* csv-core at the end of the input: a row in progress is completed by the
\* end of the input, otherwise there is no further row.
RowInProgress(st) ==
    st \in {"StartField", "InField", "InQuotedField", "InDoubleEscapedQuote"}

\* Mutant: the field in progress is lost when a chunk is exhausted.
RECURSIVE ScanLosingPartialField(_, _, _, _, _, _, _, _, _)
ScanLosingPartialField(input, d, q, st, ci, off, cur, fields, avail) ==
    IF ci > Len(input)
    THEN IF RowInProgress(st)
         THEN [res |-> "record", fields |-> Append(fields, cur),
               cur |-> <<>>, st |-> "End",
               pos |-> [chunk |-> ci, off |-> off]]
         ELSE [res |-> "end", fields |-> <<>>, cur |-> <<>>, st |-> "End",
               pos |-> [chunk |-> ci, off |-> off]]
    ELSE IF ci = 0 \/ off > Len(input[ci].bytes)
    THEN IF ci + 1 > avail
         THEN [res |-> "pending", fields |-> fields, cur |-> <<>>,
               st |-> st, pos |-> [chunk |-> ci, off |-> off]]
         ELSE IF ci + 1 <= Len(input) /\ ~input[ci + 1].ok
         THEN [res |-> "ioerr", fields |-> <<>>, cur |-> <<>>, st |-> "End",
               pos |-> [chunk |-> Len(input) + 1, off |-> 1]]
         ELSE ScanLosingPartialField(input, d, q, st, ci + 1, 1, <<>>,
                                     fields, avail)
    ELSE LET c == input[ci].bytes[off]
             t == Trans(st, c, d, q)
         IN  CASE t.act = "eps" ->
                    ScanLosingPartialField(input, d, q, t.st, ci, off, cur,
                                           fields, avail)
               [] t.act = "discard" ->
                    ScanLosingPartialField(input, d, q, t.st, ci, off + 1,
                                           cur, fields, avail)
               [] t.act = "copy" ->
                    ScanLosingPartialField(input, d, q, t.st, ci, off + 1,
                                           Append(cur, c), fields, avail)
               [] t.act = "field" ->
                    ScanLosingPartialField(input, d, q, t.st, ci, off + 1,
                                           <<>>, Append(fields, cur), avail)
               [] OTHER ->
                    [res |-> "record", fields |-> Append(fields, cur),
                     cur |-> <<>>, st |-> t.st,
                     pos |-> [chunk |-> ci, off |-> off + 1]]

\* One poll of the reader for a record, by a reader in state st that has
\* taken the chunks up to ci (none yet: 0) and stands at byte off of
\* chunk ci, with the field in progress (cur) and the fields read so far
\* of a row it was reading: the outcome ("record", "end", "ioerr",
\* "pending"), the fields (raw bytes) and the reader afterwards.  The
\* reader takes the bytes chunk by chunk as the transport hands them over:
\* when its chunk is exhausted it reads the body again (main.rs:44-47).
\* Of the body's answers the first avail are there (chunks, a failure,
\* the end of the body after the last chunk); a read beyond them finds
\* nothing yet and the poll returns Pending, the reader keeping its
\* state, the row and the field in progress.  An empty chunk is followed
\* by the next read; a failing read fails the poll and loses the row in
\* progress; the end of the body is the end of the input.
RECURSIVE Scan(_, _, _, _, _, _, _, _, _)
Scan(input, d, q, st, ci, off, cur, fields, avail) ==
    IF ci > Len(input)
    THEN IF RowInProgress(st)
         THEN [res |-> "record", fields |-> Append(fields, cur),
               cur |-> <<>>, st |-> "End",
               pos |-> [chunk |-> ci, off |-> off]]
         ELSE [res |-> "end", fields |-> <<>>, cur |-> <<>>, st |-> "End",
               pos |-> [chunk |-> ci, off |-> off]]
    ELSE IF ci = 0 \/ off > Len(input[ci].bytes)
    THEN IF ci + 1 > avail
         THEN [res |-> "pending", fields |-> fields, cur |-> cur,
               st |-> st, pos |-> [chunk |-> ci, off |-> off]]
         ELSE IF ci + 1 <= Len(input) /\ ~input[ci + 1].ok
         THEN [res |-> "ioerr", fields |-> <<>>, cur |-> <<>>, st |-> "End",
               pos |-> [chunk |-> Len(input) + 1, off |-> 1]]
         ELSE Scan(input, d, q, st, ci + 1, 1, cur, fields, avail)
    ELSE LET c == input[ci].bytes[off]
         IN  TheOne(
               { CASE t.act = "eps" ->
                        Scan(input, d, q, t.st, ci, off, cur, fields, avail)
                   [] t.act = "discard" ->
                        Scan(input, d, q, t.st, ci, off + 1, cur, fields,
                             avail)
                   [] t.act = "copy" ->
                        Scan(input, d, q, t.st, ci, off + 1, Append(cur, c),
                             fields, avail)
                   [] t.act = "field" ->
                        Scan(input, d, q, t.st, ci, off + 1, <<>>,
                             Append(fields, cur), avail)
                   [] OTHER ->
                        [res |-> "record", fields |-> Append(fields, cur),
                         cur |-> <<>>, st |-> t.st,
                         pos |-> [chunk |-> ci, off |-> off + 1]]
                 : t \in {Trans(st, c, d, q)} })

\* The body's answers when all of it has arrived: its chunks and its end.
AllThere(input) == Len(input) + 1

ReadRecord(input, d, q, rd, avail) ==
    Scan(input, d, q, rd.st, rd.pos.chunk, rd.pos.off, rd.cur, rd.fields,
         avail)

\* str::from_utf8 on one field.
RECURSIVE Utf8Valid(_)
Utf8Valid(s) ==
    IF s = <<>> THEN TRUE
    ELSE LET b == s[1]
             n == IF b < 128 THEN 1
                  ELSE IF b >= 194 /\ b <= 223 THEN 2
                  ELSE IF b >= 224 /\ b <= 239 THEN 3
                  ELSE IF b >= 240 /\ b <= 244 THEN 4
                  ELSE 0
             Cont(i) == s[i] >= 128 /\ s[i] <= 191
         IN /\ n > 0
            /\ Len(s) >= n
            /\ \A i \in 2..n : Cont(i)
            /\ (b = 224) => s[2] >= 160
            /\ (b = 237) => s[2] <= 159
            /\ (b = 240) => s[2] >= 144
            /\ (b = 244) => s[2] <= 143
            /\ Utf8Valid(SubSeq(s, n + 1, Len(s)))

\* StringRecord: every field of the record is valid UTF-8.
RecordUtf8Valid(fields) == \A i \in 1..Len(fields) : Utf8Valid(fields[i])

\* Deserializing a row into CsvRecord with headers: the map visitor takes
\* the next header as key and then the next field as value; a header with
\* no field left is the deserializer's "unexpected end of row"; fields
\* beyond the last header are not visited.
RECURSIVE DeserializeFrom(_, _, _, _)
DeserializeFrom(headers, fields, i, m) ==
    IF i > Len(headers) THEN [ok |-> TRUE, map |-> m]
    ELSE IF i > Len(fields) THEN [ok |-> FALSE, map |-> <<>>]
    ELSE DeserializeFrom(headers, fields, i + 1,
                         BTreeInsert(m, headers[i], fields[i]))

Deserialize(headers, fields) == DeserializeFrom(headers, fields, 1, <<>>)

(* ------------- stream items: Option<Result<T, E>> ---------------------- *)
NoValue == [ser |-> FALSE, map |-> <<>>]

Ok(v)   == [tag |-> "ok",   val |-> v,       err |-> ""]

Err(e)  == [tag |-> "err",  val |-> NoValue, err |-> e]

End     == [tag |-> "end",  val |-> NoValue, err |-> ""]

NoItem  == [tag |-> "none", val |-> NoValue, err |-> ""]

\* Poll::Pending: the poll found no answer yet.
Pending == [tag |-> "pending", val |-> NoValue, err |-> ""]

(* ---------------- parse_csv_records (main.rs:82-103) ------------------ *)
StartPos == [chunk |-> 0, off |-> 1]

InitReader ==
    [st |-> "StartRecord", pos |-> StartPos, headers |-> <<>>, first |-> TRUE,
     herr |-> "", cur |-> <<>>, fields |-> <<>>]

\* The reader after a read: where it stands, and what it keeps of a row
\* it could not finish.
After(rd, r) ==
    [rd EXCEPT !.st = r.st, !.pos = r.pos, !.cur = r.cur,
               !.fields = IF r.res = "pending" THEN r.fields ELSE <<>>]

\* Mutant: the reader is built without headers, the first row is data.
WithHeadersNone(input, d, q, rd, avail) == [rd EXCEPT !.first = FALSE]

\* What is wrong with the header row just read: the read failed, or the
\* row is no valid UTF-8 (the deserializer takes the headers as strings);
\* "" when the row is good, or the input has ended before it.
HeaderError(h) ==
    IF h.res = "ioerr" THEN "io"
    ELSE IF h.res = "record" /\ ~RecordUtf8Valid(h.fields) THEN "utf8"
    ELSE ""

\* The reader after its header row is read (has_headers: the first row is
\* taken as the headers on the first read and is never returned as a row);
\* as long as the header row has not arrived in full the reader is still
\* before its first read.  A header row that cannot be read or is no
\* valid text leaves the reader without headers and with the error
\* (herr), which is the stream's first item.
WithHeaders(input, d, q, rd, avail) ==
    IF ~rd.first THEN rd
    ELSE TheOne(
           { IF h.res = "pending" THEN After(rd, h)
             ELSE [After(rd, h) EXCEPT
                      !.headers = IF HeaderError(h) = "" THEN h.fields
                                  ELSE <<>>,
                      !.herr = HeaderError(h),
                      !.first = FALSE]
             : h \in {ReadRecord(input, d, q, rd, avail)} })

\* One poll of the deserializing record stream when the first avail
\* answers of the body are there: the item, or Pending, and the reader
\* afterwards.
NextItem(input, opts, rd, avail) ==
    LET d  == AsU8(opts.delimiter)
        q  == AsU8(opts.quote)
        Row(r0, rr) ==
            LET de == Deserialize(r0.headers, rr.fields)
            IN  [rd   |-> After(r0, rr),
                 item |-> CASE rr.res = "pending" -> Pending
                            [] rr.res = "end"     -> End
                            [] rr.res = "ioerr"   -> Err("io")
                            [] OTHER ->
                                 IF ~RecordUtf8Valid(rr.fields)
                                 THEN Err("utf8")
                                 ELSE IF ~de.ok THEN Err("deserialize")
                                 ELSE Ok(RecordValue(de.map))]
    IN  TheOne(
          { IF r0.first THEN [rd |-> r0, item |-> Pending]
            ELSE IF rd.first /\ r0.herr # ""
            THEN [rd |-> r0, item |-> Err(r0.herr)]
            ELSE TheOne({ Row(r0, rr) :
                            rr \in {ReadRecord(input, d, q, r0, avail)} })
            : r0 \in {WithHeaders(input, d, q, rd, avail)} })

\* Mutant: the stream goes on after an error item.
DecPcAfterSkippingErrors(item) == IF item.tag = "end" THEN "done" ELSE "streaming"

\* `yield record?` inside try_stream!: an error item ends the stream.
DecPcAfter(item) == IF item.tag = "ok" THEN "streaming" ELSE "done"

\* The whole item sequence of parse_csv_records on an input that has
\* arrived in full (the end of the stream is not an item).
RECURSIVE DecodeFrom(_, _, _)
DecodeFrom(input, opts, rd) ==
    LET n == NextItem(input, opts, rd, AllThere(input))
    IN  IF n.item.tag = "end" THEN <<>>
        ELSE IF n.item.tag = "err" THEN <<n.item>>
        ELSE <<n.item>> \o DecodeFrom(input, opts, n.rd)

DecodeAll(input, opts) == DecodeFrom(input, opts, InitReader)

(* ---------------- serialize_json_seq (main.rs:107-140) ---------------- *)
\* Mutant: "[" is sent alone, the first value is left out of the chunk.
FirstChunkBracketOnly(buffer, json) == buffer

\* The first value gets no separator (main.rs:122-125): the chunk is the
\* buffer, "[" already pushed, with the value's JSON appended.
FirstChunk(buffer, json) == buffer \o json

\* Mutant: the separator follows the value instead of preceding it.
RestChunkTrailingComma(buffer, json) == (buffer \o json) \o <<Comma>>

\* Mutant: the separator is forgotten.
RestChunkNoSeparator(buffer, json) == buffer \o json

\* Later values (main.rs:131-133): "," and the value's JSON in one chunk.
RestChunk(buffer, json) == (buffer \o <<Comma>>) \o json

\* The closing chunk (main.rs:138).
ClosingChunk == <<RBracket>>

\* Mutant: what is in the buffer is sent before the error is returned.
FailFlushingBuffer(buffer, ctx) ==
    [buffer |-> buffer, chunks |-> <<buffer>>, status |-> "error",
     ctx |-> ctx, pc |-> "failed"]

\* Mutant: the array is closed before the error is returned.
FailClosingArray(buffer, ctx) ==
    [buffer |-> buffer, chunks |-> <<ClosingChunk>>, status |-> "error",
     ctx |-> ctx, pc |-> "failed"]

\* The `?` of main.rs:122-123 and 130-132: the error becomes the stream's
\* last item; nothing is yielded with it.
Fail(buffer, ctx) ==
    [buffer |-> buffer, chunks |-> <<>>, status |-> "error", ctx |-> ctx,
     pc |-> "failed"]

\* Mutant: an empty upstream is answered with "[" and "]" at once, and the
\* loop is entered all the same.
StepFirstClosingEmpty(buffer, item) ==
    IF item.tag = "err" THEN Fail(buffer, "failed to read from input stream")
    ELSE IF item.tag = "end"
    THEN [buffer |-> buffer, chunks |-> <<buffer, ClosingChunk>>,
          status |-> "open", ctx |-> "", pc |-> "yielded"]
    ELSE LET j == ToJson(item.val)
         IN  IF ~j.ok THEN Fail(buffer, "failed to serialize value")
             ELSE [buffer |-> FirstChunk(buffer, j.bytes),
                   chunks |-> <<FirstChunk(buffer, j.bytes)>>,
                   status |-> "open", ctx |-> "", pc |-> "yielded"]

\* main.rs:122-125, resumed with the item try_next() returned.
StepFirst(buffer, item) ==
    IF item.tag = "err" THEN Fail(buffer, "failed to read from input stream")
    ELSE IF item.tag = "end"
    THEN [buffer |-> buffer, chunks |-> <<buffer>>, status |-> "open",
          ctx |-> "", pc |-> "yielded"]
    ELSE LET j == ToJson(item.val)
         IN  IF ~j.ok THEN Fail(buffer, "failed to serialize value")
             ELSE [buffer |-> FirstChunk(buffer, j.bytes),
                   chunks |-> <<FirstChunk(buffer, j.bytes)>>,
                   status |-> "open", ctx |-> "", pc |-> "yielded"]

\* Mutant: at the upstream's end the loop neither closes the array nor
\* asks again: the encoder stays pending for good.
StepRestNeverClosing(buffer, item) ==
    IF item.tag = "err" THEN Fail(buffer, "failed to read from input stream")
    ELSE IF item.tag = "end"
    THEN [buffer |-> buffer, chunks |-> <<>>, status |-> "open",
          ctx |-> "", pc |-> "pending"]
    ELSE LET j == ToJson(item.val)
         IN  IF ~j.ok THEN Fail(buffer \o <<Comma>>, "failed to serialize value")
             ELSE [buffer |-> RestChunk(buffer, j.bytes),
                   chunks |-> <<RestChunk(buffer, j.bytes)>>,
                   status |-> "open", ctx |-> "", pc |-> "yielded"]

\* main.rs:129-138, resumed with the item the loop's poll returned.
StepRest(buffer, item) ==
    IF item.tag = "err" THEN Fail(buffer, "failed to read from input stream")
    ELSE IF item.tag = "end"
    THEN [buffer |-> buffer, chunks |-> <<ClosingChunk>>, status |-> "open",
          ctx |-> "", pc |-> "closed"]
    ELSE LET j == ToJson(item.val)
         IN  IF ~j.ok THEN Fail(buffer \o <<Comma>>, "failed to serialize value")
             ELSE [buffer |-> RestChunk(buffer, j.bytes),
                   chunks |-> <<RestChunk(buffer, j.bytes)>>,
                   status |-> "open", ctx |-> "", pc |-> "yielded"]

(* ------------------------- inputs ------------------------------------- *)
\* A CSV document is described by its table: a header row and data rows
\* of cells; a cell is its text and whether the writer quoted it.
U(v) == [val |-> v, quoted |-> FALSE]

Q(v) == [val |-> v, quoted |-> TRUE]

SeqUpTo(S, n) == UNION {[1..k -> S] : k \in 0..n}

Headers ==
    { <<U(<<ByteA>>)>>,
      <<U(<<ByteA>>), U(<<ByteB>>)>>,
      <<Q(<<ByteB>>), U(<<ByteA>>)>>,
      <<U(<<BadByte>>)>> }

Rows ==
    { <<U(<<ByteX>>)>>,
      <<U(<<>>)>>,
      <<U(<<BadByte>>)>>,
      <<Q(<<ByteX>>), U(<<Comma, LF, DQuote>>)>>,
      <<U(<<Tab, CR, SQuote>>), U(<<>>)>>,
      <<U(<<ByteX>>), U(<<ByteA>>), U(<<ByteB>>)>> }

EmptyTable == [header |-> <<>>, rows |-> <<>>]

Tables ==
    {EmptyTable} \cup
    {[header |-> h, rows |-> r] : h \in Headers, r \in SeqUpTo(Rows, MaxRows)}

\* The documents that are also delivered byte by byte: their rows are
\* plain, or hold a quoted field with a delimiter, a newline and a quote.
SplitRows ==
    { <<U(<<ByteX>>)>>,
      <<Q(<<ByteX>>), U(<<Comma, LF, DQuote>>)>> }

SplitTables ==
    {[header |-> h, rows |-> r] : h \in Headers, r \in SeqUpTo(SplitRows, MaxRows)}

\* Characters beyond one byte: U+012C and U+0122, whose code points are
\* "," and '"' modulo 256.
WideComma == 300

WideQuote == 290

WideQueries == {[delimiter |-> Some(WideComma), quote |-> None],
                [delimiter |-> None, quote |-> Some(WideQuote)]}

\* The query string's options: each absent or a non-default character,
\* and one option a character beyond one byte.
Queries ==
    {[delimiter |-> qd, quote |-> qq] :
        qd \in {None, Some(Tab)}, qq \in {None, Some(SQuote)}}
    \cup WideQueries

Contains(s, c) == \E i \in 1..Len(s) : s[i] = c

\* Writing a quote inside a quoted field: it is doubled.
RECURSIVE DoubleQuotes(_, _)
DoubleQuotes(s, q) ==
    IF s = <<>> THEN <<>>
    ELSE (IF Head(s) = q THEN <<q, q>> ELSE <<Head(s)>>)
            \o DoubleQuotes(Tail(s), q)

NeedsQuote(v, d, q) ==
    Contains(v, d) \/ Contains(v, q) \/ Contains(v, LF) \/ Contains(v, CR)

RenderCell(c, d, q, alone) ==
    IF c.quoted \/ NeedsQuote(c.val, d, q) \/ (alone /\ c.val = <<>>)
    THEN <<q>> \o DoubleQuotes(c.val, q) \o <<q>>
    ELSE c.val

RECURSIVE RenderRow(_, _, _, _)
RenderRow(row, d, q, i) ==
    IF i > Len(row) THEN <<>>
    ELSE (IF i > 1 THEN <<d>> ELSE <<>>)
            \o RenderCell(row[i], d, q, Len(row) = 1)
            \o RenderRow(row, d, q, i + 1)

TableLines(t) == IF t.header = <<>> THEN <<>> ELSE <<t.header>> \o t.rows

\* How the document is written and delivered: the row terminator, whether
\* the last row is terminated, after how many rows the transport fails
\* (0: it does not; else after the header row or after the last row: in
\* the middle of the header row when that is the only row and is not
\* terminated, before any byte when there is no row at all), and
\* how the transport cuts the bytes into chunks ("rows": one chunk per
\* row; "bytes": one chunk per byte, each after an empty chunk, so that
\* fields, quoted fields and "\r\n" are all split).
Layouts(t) ==
    {l \in [eol : {<<LF>>, <<CR, LF>>}, final : BOOLEAN,
            fail : {0, 1, Len(TableLines(t))}, cut : {"rows", "bytes"}] :
        (t = EmptyTable) => (l.eol = <<LF>> /\ ~l.final /\ l.cut = "rows")}

OkChunk(b) == [ok |-> TRUE, bytes |-> b]

ErrChunk == [ok |-> FALSE, bytes |-> <<>>]

RenderChunks(t, d, q, l) ==
    LET lines == TableLines(t)
    IN  [i \in 1..Len(lines) |->
            OkChunk(RenderRow(lines[i], d, q, 1)
                    \o (IF i < Len(lines) \/ l.final THEN l.eol ELSE <<>>))]

\* The same bytes in chunks of one byte, an empty chunk before each.
RECURSIVE Explode(_)
Explode(bytes) ==
    IF bytes = <<>> THEN <<>>
    ELSE <<OkChunk(<<>>), OkChunk(<<Head(bytes)>>)>> \o Explode(Tail(bytes))

Rechunk(chunks, cut) ==
    IF cut = "rows" THEN chunks ELSE Explode(InputBytes(chunks))

RenderInput(t, w, l) ==
    LET all == RenderChunks(t, w.delimiter, w.quote, l)
    IN  IF l.fail = 0 THEN Rechunk(all, l.cut)
        ELSE Rechunk(SubSeq(all, 1, IF l.fail < Len(all) THEN l.fail
                                       ELSE Len(all)), l.cut)
                \o <<ErrChunk>>

DefaultLayout == [eol |-> <<LF>>, final |-> FALSE, fail |-> 0, cut |-> "rows"]

NoQuery == [delimiter |-> None, quote |-> None]

\* The dialect the client wrote the document in: the characters it names
\* in the query, "," and '"' where it names none or names a character
\* that is no single byte.
Names(p) == Len(p) = 1 /\ Len(p[1]) = 1 /\ p[1][1] <= 127

Written(qy) ==
    [delimiter |-> IF Names(qy.delimiter) THEN qy.delimiter[1][1] ELSE 44,
     quote     |-> IF Names(qy.quote) THEN qy.quote[1][1] ELSE 34]

\* Upstream items of a generic Stream<Item = Result<T, E>>.
MapA == <<  <<  <<ByteA>>, <<ByteX>>  >>  >>

MapB == <<  <<  <<ByteB>>, <<>>  >>  >>

Items == {Ok(RecordValue(MapA)), Ok(RecordValue(MapB)), Ok(Unserializable),
          Err("upstream")}

(* ------- route_request, convert_csv (main.rs:142-221) ----------------- *)
\* What of the request besides the query and the file's bytes decides the
\* answer: its method and path, whether the Content-Type names a
\* multipart boundary and whether the body has the file field.
GoodRequest ==
    [method |-> "POST", path |-> "/", boundary |-> TRUE, field |-> TRUE]

BadRequests ==
    {[GoodRequest EXCEPT !.method = "GET"],
     [GoodRequest EXCEPT !.path = "/other"],
     [GoodRequest EXCEPT !.boundary = FALSE],
     [GoodRequest EXCEPT !.field = FALSE]}

\* Query strings that are no options: a value of two characters, an
\* empty value ("delimiter="), a parameter given twice.
BadQueries ==
    {[delimiter |-> <<  <<Comma, Comma>>  >>, quote |-> None],
     [delimiter |-> None, quote |-> <<  <<SQuote, SQuote>>  >>],
     [delimiter |-> <<  <<>>  >>, quote |-> None],
     [delimiter |-> None, quote |-> <<  <<>>  >>],
     [delimiter |-> <<  <<Tab>>, <<Comma>>  >>, quote |-> None]}

\* The body sent with a request that the handler may refuse.
SampleTable == [header |-> <<U(<<ByteA>>), U(<<ByteB>>)>>,
                rows   |-> <<  <<U(<<ByteX>>), U(<<>>)>>  >>]

\* Mutant: every query string is taken as valid options.
QueryParsesAlways(qy) == TRUE

\* One field of CsvParseOptions: it may be absent; given twice it is a
\* duplicate field; its value is a char, so a value of no or of several
\* characters is refused.
FieldParses(p) == Len(p) <= 1 /\ (Len(p) = 1 => Len(p[1]) = 1)

\* serde_urlencoded::from_str::<CsvParseOptions> (main.rs:143-146).
QueryParses(qy) == FieldParses(qy.delimiter) /\ FieldParses(qy.quote)

\* convert_csv up to its await of read_multipart (main.rs:143-170): the
\* refusing response (the error text is followed by serde's message), or
\* none yet, the body handed to read_multipart.
ConvertCsvChecks(qy, rq) ==
    IF ~QueryParses(qy)
    THEN [status |-> 400, error |-> "invalid query parameters",
          bodyRead |-> FALSE]
    ELSE IF ~rq.boundary
    THEN [status |-> 400,
          error |-> "missing boundary in multipart content type",
          bodyRead |-> FALSE]
    ELSE [status |-> 0, error |-> "", bodyRead |-> TRUE]

\* route_request (main.rs:213-221): POST / goes to convert_csv, anything
\* else is answered 404 with an empty body.
RouteResponse(qy, rq) ==
    IF rq.method = "POST" /\ rq.path = "/"
    THEN ConvertCsvChecks(qy, rq)
    ELSE [status |-> 404, error |-> "", bodyRead |-> FALSE]

\* convert_csv resumed with what read_multipart found (main.rs:170-211):
\* the refusal, or the pipeline built as the response's streamed body,
\* whose status is the builder's default.
ConvertCsvAnswer(rq) ==
    IF ~rq.field
    THEN [status |-> 400, error |-> "missing required multipart file field",
          pipeline |-> FALSE]
    ELSE [status |-> 200, error |-> "", pipeline |-> TRUE]

\* Mutant: the buffer of an earlier run is used again.
NewBufferReused(old) == old

\* Vec::with_capacity(1024) (main.rs:117): an empty buffer of the run's
\* own, whatever an earlier run left behind.
NewBuffer(old) == <<>>

NoOutput == [resp |-> 0, chunks |-> <<>>, status |-> "open", err |-> ""]

(* ----------------------------- state ---------------------------------- *)
VARIABLES
    source,     \* "csv": values = parse_csv_records(...); "seq": any stream
    query,      \* the query string's options
    request,    \* the rest of the request: boundary and file field present
    table,      \* the table the request body was written from
    layout,     \* how it was written and delivered
    input,      \* the body's chunk stream: Result<bytes, io::Error> items
    values,     \* source = "seq": the upstream's remaining items
    respStatus, \* the response's status, 0 as long as there is none
    respError,  \* the error text of a refusing response
    bodyRead,   \* the handler has taken the request body to read it
    reader,     \* the csv reader: state, position, headers
    decPc,      \* parse_csv_records: "absent", "init", "streaming", "done"
    slot,       \* the upstream's answer to the poll in progress
    yielded,    \* the items the upstream has yielded, in order
    exhausted,  \* the upstream has answered None (its end)
    encPc,      \* serialize_json_seq: "absent", else where it is suspended
    buffer,     \* its Vec<u8>
    out,        \* the chunks it has yielded, in order
    outStatus,  \* "open", "ended" (None after the last chunk), "error"
    outErr,     \* the context of its terminal error
    polls,      \* the consumer's polls of the encoder, and
    pulls,      \* the encoder's polls of its upstream, that were not
                \* answered Pending
    run,        \* 1: the first run; more: the same call or request repeated
    prevOut     \* the answer and output of the run before

reqVars == <<source, query, request, table, layout, input>>

respVars == <<respStatus, respError, bodyRead>>

decVars == <<reader, decPc>>

runVars == <<run, prevOut>>

vars == <<source, query, request, table, layout, input, values, respStatus,
          respError, bodyRead, reader, decPc, slot, yielded, exhausted,
          encPc, buffer, out, outStatus, outErr, polls, pulls, run, prevOut>>

Options == CsvParseOptions(query.delimiter, query.quote)

\* The requests followed: every table in every layout under the default
\* options, delivered row by row, and the split tables also byte by byte
\* over a transport that does not fail; every table under the other
\* options over a transport that does not fail, row by row with the last
\* row terminated; the requests that are refused; and the generic
\* upstreams of serialize_json_seq.  When the chunks of a body arrive is
\* not fixed here: every poll of the reader finds any number of the
\* chunks it has not yet taken (ParseNext).
Init ==
    /\ \/ /\ source = "csv"
          /\ query \in Queries
          /\ request = GoodRequest
          /\ table \in Tables
          /\ layout \in Layouts(table)
          /\ (query # NoQuery) =>
                (layout.cut = "rows" /\ layout.fail = 0 /\ layout.final)
          /\ (layout.cut = "bytes") =>
                (table \in SplitTables /\ layout.fail = 0)
          /\ values = <<>>
          /\ encPc = "absent"
       \/ /\ source = "csv"
          /\ \/ query \in BadQueries /\ request = GoodRequest
             \/ query = NoQuery /\ request \in BadRequests
          /\ table = SampleTable
          /\ layout = DefaultLayout
          /\ values = <<>>
          /\ encPc = "absent"
       \/ /\ source = "seq"
          /\ query = NoQuery
          /\ request = GoodRequest
          /\ table = EmptyTable
          /\ layout = DefaultLayout
          /\ values \in SeqUpTo(Items, MaxVals)
          /\ encPc = "start"
    /\ input = RenderInput(table, Written(query), layout)
    /\ respStatus = 0
    /\ respError = ""
    /\ bodyRead = FALSE
    /\ reader = InitReader
    /\ decPc = "absent"
    /\ slot = NoItem
    /\ yielded = <<>>
    /\ exhausted = FALSE
    /\ buffer = <<>>
    /\ out = <<>>
    /\ outStatus = "open"
    /\ outErr = ""
    /\ polls = 0
    /\ pulls = 0
    /\ run = 1
    /\ prevOut = NoOutput

\* route_request called with the request (main.rs:213-221), and in it
\* convert_csv as far as its await of read_multipart (main.rs:143-170):
\* the request is refused, or its body is being read and there is no
\* response yet.
RouteRequest ==
    /\ source = "csv"
    /\ respStatus = 0
    /\ ~bodyRead
    /\ LET r == RouteResponse(query, request)
       IN  /\ respStatus' = r.status
           /\ respError' = r.error
           /\ bodyRead' = r.bodyRead
    /\ UNCHANGED <<reqVars, values, decVars, slot, yielded, exhausted, encPc,
                   buffer, out, outStatus, outErr, polls, pulls, runVars>>

\* convert_csv resumed once read_multipart has answered (main.rs:170-211):
\* it refuses the request, or answers with the pipeline as the
\* response's streamed body.
ConvertCsvResume ==
    /\ source = "csv"
    /\ respStatus = 0
    /\ bodyRead
    /\ LET r == ConvertCsvAnswer(request)
       IN  /\ respStatus' = r.status
           /\ respError' = r.error
           /\ encPc' = IF r.pipeline THEN "start" ELSE encPc
           /\ decPc' = IF r.pipeline THEN "init" ELSE decPc
           /\ reader' = IF r.pipeline THEN InitReader ELSE reader
    /\ UNCHANGED <<reqVars, values, bodyRead, slot, yielded, exhausted,
                   buffer, out, outStatus, outErr, polls, pulls, runVars>>

\* Mutant: the upstream runs ahead of the consumer's polls.
AwaitingEager == slot = NoItem /\ encPc \in {"start", "first", "rest"}

\* The encoder is suspended on its upstream: polled by its consumer and
\* waiting for the item it asked for.
Awaiting == encPc \in {"first", "rest"} /\ slot = NoItem

\* The body's answers the reader has taken.
Consumed(rd) == rd.pos.chunk

\* The answers parse_csv_records can give to a poll, with the reader
\* afterwards: the answer it gives when enough of the body is there, and,
\* for each of the body's answers it reads on the way (from lo on) and
\* that may be missing still, Pending with the reader stopped before it.
Polled(body, opts, rd, lo, mayPend) ==
    UNION { {full} \cup
            (IF mayPend
             THEN {NextItem(body, opts, rd, avail) :
                      avail \in lo .. (Consumed(full.rd) - 1)}
             ELSE {})
            : full \in {NextItem(body, opts, rd, AllThere(body))} }

\* parse_csv_records polled (main.rs:91-102), the reader reading the
\* body as far as it has arrived (main.rs:44-47): the next row is read,
\* deserialized and yielded; an error is yielded and ends the stream; a
\* finished stream answers None again.  When the row is not there in
\* full the poll is answered Pending, and so is the consumer's poll of
\* the encoder above it: the task leaves the reader where it stands and
\* is polled again when the body's next answer has arrived.
ParseNext ==
    /\ source = "csv"
    /\ Awaiting \/ slot = Pending
    /\ \E n \in Polled(input, Options, reader,
                       IF slot = Pending THEN Consumed(reader) + 1
                       ELSE Consumed(reader),
                       decPc # "done") :
       \E item \in {IF decPc = "done" THEN End ELSE n.item} :
           /\ slot' = item
           /\ reader' = IF decPc = "done" THEN reader ELSE n.rd
           /\ decPc' = IF item = Pending THEN decPc ELSE DecPcAfter(item)
           /\ yielded' = IF item.tag \in {"end", "pending"} THEN yielded
                         ELSE Append(yielded, item)
           /\ exhausted' = (item.tag = "end")
           /\ pulls' = IF item = Pending THEN pulls ELSE pulls + 1
    /\ UNCHANGED <<reqVars, values, respVars, encPc, buffer, out, outStatus,
                   outErr, polls, runVars>>

\* A generic upstream polled: its next item, None once exhausted, or,
\* when it has nothing yet, Pending; the poll after a Pending one is made
\* when the upstream has woken the task and is answered.
ValuesNext ==
    /\ source = "seq"
    /\ Awaiting \/ slot = Pending
    /\ \/ /\ slot = NoItem
          /\ slot' = Pending
          /\ UNCHANGED <<values, yielded, exhausted, pulls>>
       \/ /\ IF values = <<>>
             THEN /\ slot' = End
                  /\ exhausted' = TRUE
                  /\ UNCHANGED <<values, yielded>>
             ELSE /\ slot' = Head(values)
                  /\ values' = Tail(values)
                  /\ yielded' = Append(yielded, Head(values))
                  /\ UNCHANGED exhausted
          /\ pulls' = pulls + 1
    /\ UNCHANGED <<reqVars, respVars, decVars, encPc, buffer, out, outStatus,
                   outErr, polls, runVars>>

\* First poll of serialize_json_seq (main.rs:117-122): the buffer is
\* made, "[" is pushed and the first value is awaited.
EncBegin ==
    /\ encPc = "start"
    /\ buffer' = Append(NewBuffer(buffer), LBracket)
    /\ encPc' = "first"
    /\ polls' = polls + 1
    /\ UNCHANGED <<reqVars, values, respVars, decVars, slot, yielded,
                   exhausted, out, outStatus, outErr, pulls, runVars>>

Apply(step) ==
    /\ buffer' = step.buffer
    /\ out' = out \o step.chunks
    /\ outStatus' = step.status
    /\ outErr' = step.ctx
    /\ encPc' = step.pc
    /\ slot' = NoItem
    /\ UNCHANGED <<reqVars, values, respVars, decVars, yielded, exhausted,
                   polls, pulls, runVars>>

\* main.rs:122-125.
EncFirst ==
    /\ encPc = "first"
    /\ slot \notin {NoItem, Pending}
    /\ Apply(StepFirst(buffer, slot))

\* Polled after a yield (main.rs:126, 134): the buffer is cleared and the
\* loop polls the upstream.
EncResume ==
    /\ encPc = "yielded"
    /\ buffer' = <<>>
    /\ encPc' = "rest"
    /\ polls' = polls + 1
    /\ UNCHANGED <<reqVars, values, respVars, decVars, slot, yielded,
                   exhausted, out, outStatus, outErr, pulls, runVars>>

\* main.rs:129-138.
EncRest ==
    /\ encPc = "rest"
    /\ slot \notin {NoItem, Pending}
    /\ Apply(StepRest(buffer, slot))

\* Polled after the closing chunk (main.rs:139): the stream ends.
EncEnd ==
    /\ encPc = "closed"
    /\ encPc' = "done"
    /\ outStatus' = "ended"
    /\ polls' = polls + 1
    /\ UNCHANGED <<reqVars, values, respVars, decVars, slot, yielded,
                   exhausted, buffer, out, outErr, pulls, runVars>>

\* The answer of a run is complete: the response was a refusal, or the
\* output has ended.
Answered == respStatus \in {400, 404} \/ encPc \in {"done", "failed"}

\* The same call made again: the client sends the same request once the
\* answer to the one before is complete (the server calls route_request
\* for every request, main.rs:236-240), or serialize_json_seq is called
\* again on the same items.  All of a run's state is local to
\* convert_csv and the streams it builds (main.rs:91-98, 117, 142-211);
\* what the run before left in it is dropped with that run and is built
\* anew.  Requests in flight at the same time share nothing either and
\* are not followed side by side.
Retry ==
    /\ run < MaxRuns
    /\ Answered
    /\ run' = run + 1
    /\ prevOut' = [resp |-> respStatus, chunks |-> out, status |-> outStatus,
                   err |-> outErr]
    /\ values' = IF source = "seq" THEN yielded \o values ELSE values
    /\ encPc' = IF source = "csv" THEN "absent" ELSE "start"
    /\ decPc' = "absent"
    /\ respStatus' = 0
    /\ respError' = ""
    /\ bodyRead' = FALSE
    /\ slot' = NoItem
    /\ yielded' = <<>>
    /\ exhausted' = FALSE
    /\ out' = <<>>
    /\ outStatus' = "open"
    /\ outErr' = ""
    /\ polls' = 0
    /\ pulls' = 0
    /\ UNCHANGED <<reqVars, reader, buffer>>

Next ==
    \/ RouteRequest
    \/ ConvertCsvResume
    \/ ParseNext
    \/ ValuesNext
    \/ EncBegin
    \/ EncFirst
    \/ EncResume
    \/ EncRest
    \/ EncEnd
    \/ Retry

Spec == Init /\ [][Next]_vars

\* The steps of a pipeline in use: its consumer polls it, and each poll
\* is carried through by the encoder and its upstream.
PipelineStep ==
    \/ ParseNext
    \/ ValuesNext
    \/ EncBegin
    \/ EncFirst
    \/ EncResume
    \/ EncRest
    \/ EncEnd

\* The runs checked for progress start from the requests with default
\* options whose document has one column and rows that are valid or not
\* valid UTF-8, in every layout, and from the generic upstreams of up to
\* two items.
LiveRows == {<<U(<<ByteX>>)>>, <<U(<<BadByte>>)>>}

LiveInit ==
    /\ Init
    /\ query = NoQuery
    /\ Len(values) < MaxVals
    /\ (table # EmptyTable) =>
          /\ table.header = <<U(<<ByteA>>)>>
          /\ \A i \in 1..Len(table.rows) : table.rows[i] \in LiveRows

\* The runs in which the consumer keeps polling until the output has
\* ended, and polls again after a poll answered Pending: the body is a
\* finite sequence of chunks that ends, so the answer a poll waits for
\* arrives and the task is woken.
LiveSpec == LiveInit /\ [][Next]_vars /\ WF_vars(PipelineStep)

(* ============================ claims ================================== *)
\* The JSON texts of a sequence of Ok items, joined by single commas.
RECURSIVE JoinJson(_)
JoinJson(items) ==
    IF items = <<>> THEN <<>>
    ELSE ToJson(items[1].val).bytes
            \o (IF Len(items) > 1 THEN <<Comma>> ELSE <<>>)
            \o JoinJson(Tail(items))

\* An item on which the encoder fails: an upstream error, or a value whose
\* serialization fails.
Failing(item) == item.tag = "err" \/ (item.tag = "ok" /\ ~ToJson(item.val).ok)

HasFailing(items) == \E i \in 1..Len(items) : Failing(items[i])

\* The items the encoder has taken from its upstream.
Taken == IF slot.tag \in {"none", "end", "pending"} THEN yielded
         ELSE SubSeq(yielded, 1, Len(yielded) - 1)

CountClosing(chunks) == Cardinality({i \in 1..Len(chunks) : chunks[i] = ClosingChunk})

\* C1: when the output sequence has ended without error, the concatenation
\* of its chunks is "[", the JSON of the upstream's values in upstream
\* order joined by single commas, and "]".
C1_CompleteArray ==
    (outStatus = "ended") =>
        Concat(out) = <<LBracket>> \o JoinJson(yielded) \o <<RBracket>>

C1_Witness == outStatus = "ended" /\ Len(yielded) >= 2

\* C2: once the encoder has taken an upstream error or a value that fails
\* to serialize, after k successful elements, its output has ended with an
\* error, holds exactly the k chunks emitted before, and no chunk is "]".
C2_ErrorIsTerminal ==
    HasFailing(Taken) =>
        /\ outStatus = "error"
        /\ encPc = "failed"
        /\ Len(out) = Len(Taken) - 1
        /\ CountClosing(out) = 0
        /\ outErr = IF Last(Taken).tag = "err"
                    THEN "failed to read from input stream"
                    ELSE "failed to serialize value"

C2_Witness == outStatus = "error" /\ Len(out) >= 1

\* C3: "]" is emitted at most once, as the last chunk, only after the
\* upstream has answered its end with no error before; and an encoder that
\* has taken the upstream's end in its loop has emitted "]", and never
\* fails after the upstream's end.
C3_ClosingBracket ==
    /\ CountClosing(out) <= 1
    /\ \A i \in 1..Len(out) :
          out[i] = ClosingChunk =>
              /\ i = Len(out)
              /\ exhausted
              /\ ~HasFailing(yielded)
              /\ outStatus # "error"
    /\ exhausted => encPc # "failed"
    /\ encPc \in {"closed", "done"} =>
          (out # <<>> /\ Last(out) = ClosingChunk /\ exhausted)
    /\ outStatus = "ended" => encPc = "done"

C3_Witness == encPc = "done" /\ Last(out) = ClosingChunk /\ Len(out) >= 3

(* ----------------------- claims on the decoder ------------------------ *)
CellOk(c) == ~Contains(c.val, BadByte)

RowOk(row) == \A j \in 1..Len(row) : CellOk(row[j])

\* A valid document: delivered whole, every data row of the header's
\* width, every field of the header and of the rows valid text.
ValidDocument ==
    /\ source = "csv"
    /\ layout.fail = 0
    /\ RowOk(table.header)
    /\ \A i \in 1..Len(table.rows) :
          Len(table.rows[i]) = Len(table.header) /\ RowOk(table.rows[i])

\* Record m holds exactly the header's names, each with the text of the
\* row's cell in that column.
RecordOf(m, header, row) ==
    /\ Len(m) = Len(header)
    /\ \A j \in 1..Len(header) :
          HasKey(m, header[j].val) /\ Get(m, header[j].val) = row[j].val

\* C4: for an empty input or one with only a header row (of valid text,
\* delivered whole; a header row that fails to decode is C7's case), no
\* record and no error is yielded, and the finished output is exactly
\* "[]".
C4_EmptyOrHeaderOnly ==
    (source = "csv" /\ table.rows = <<>> /\ layout.fail = 0
        /\ RowOk(table.header)) =>
        /\ yielded = <<>>
        /\ outStatus # "error"
        /\ encPc = "done" =>
              (outStatus = "ended" /\ Concat(out) = <<LBracket, RBracket>>)

C4_Witness ==
    /\ source = "csv" /\ table.header # <<>> /\ table.rows = <<>>
    /\ layout.fail = 0
    /\ encPc = "done" /\ Concat(out) = <<LBracket, RBracket>>

\* C5: for a valid document with a header row and m data rows, the i-th
\* item yielded is the record of the i-th data row (never the header row),
\* the stream ends after exactly m records, and the output has one element
\* chunk per data row.
C5_OneRecordPerRow ==
    (ValidDocument /\ table.header # <<>>) =>
        /\ Len(yielded) <= Len(table.rows)
        /\ \A i \in 1..Len(yielded) :
              /\ yielded[i].tag = "ok"
              /\ RecordOf(yielded[i].val.map, table.header, table.rows[i])
        /\ exhausted => Len(yielded) = Len(table.rows)
        /\ outStatus # "error"
        /\ encPc = "done" =>
              Len(out) = IF table.rows = <<>> THEN 2 ELSE Len(table.rows) + 1

C5_Witness ==
    /\ ValidDocument /\ Len(table.header) = 2 /\ Len(table.rows) = 2
    /\ encPc = "done" /\ Len(yielded) = 2

\* The JSON object of a row with its keys in header order.
RECURSIVE HeaderOrderEntries(_, _, _)
HeaderOrderEntries(header, row, j) ==
    IF j > Len(header) THEN <<>>
    ELSE (IF j > 1 THEN <<Comma>> ELSE <<>>)
            \o JsonString(header[j].val) \o <<Colon>> \o JsonString(row[j].val)
            \o HeaderOrderEntries(header, row, j + 1)

HeaderOrderObject(header, row) ==
    <<LBrace>> \o HeaderOrderEntries(header, row, 1) \o <<RBrace>>

\* C6: the keys of every emitted JSON object appear in the order of the
\* header row: the element chunk of the i-th data row is the separator
\* ("[" for the first, "," after) and the object with its keys in header
\* order.
C6_KeysInHeaderOrder ==
    (source = "csv") =>
        \A i \in 1..Len(out) :
            (i <= Len(table.rows)) =>
                out[i] = (IF i = 1 THEN <<LBracket>> ELSE <<Comma>>)
                            \o HeaderOrderObject(table.header, table.rows[i])

\* Row i's text has been delivered whole (to its terminator, or to the end
\* of an input that does not fail).
Delivered(i) ==
    \/ layout.fail = 0
    \/ /\ i + 1 <= layout.fail
       /\ (i + 1 < Len(TableLines(table)) \/ layout.final)

\* What reading row i is to give, by the table: "" for a record, else the
\* error.  Row Len(rows) + 1 is the read after the last row.
ExpectedErr(i) ==
    IF i > Len(table.rows) THEN (IF layout.fail > 0 THEN "io" ELSE "")
    ELSE IF ~Delivered(i) THEN "io"
    ELSE IF ~RowOk(table.rows[i]) THEN "utf8"
    ELSE IF Len(table.rows[i]) < Len(table.header) THEN "deserialize"
    ELSE ""

\* What reading the header row is to give, by the table: "" for headers
\* (none when there is no input at all), else the error.
ExpectedHeaderErr ==
    IF ~Delivered(0) THEN "io"
    ELSE IF ~RowOk(table.header) THEN "utf8"
    ELSE ""

\* C7: a decoding error (failed read, invalid UTF-8, a row that cannot be
\* deserialized), in the header row or in a data row, is yielded as the
\* stream's last item, which ends the stream; the items before it are
\* the unchanged records of the rows before it; and the stream does not
\* reach its end past an error.
C7_FirstErrorTerminates ==
    (source = "csv") =>
      IF ExpectedHeaderErr # ""
      THEN /\ Len(yielded) <= 1
           /\ ~exhausted
           /\ (yielded # <<>>) =>
                 (yielded[1] = Err(ExpectedHeaderErr) /\ decPc = "done")
           /\ (decPc = "done") => yielded # <<>>
      ELSE
        /\ Len(yielded) <= Len(table.rows) + 1
        /\ \A i \in 1..Len(yielded) :
              IF ExpectedErr(i) = ""
              THEN /\ i <= Len(table.rows)
                   /\ yielded[i].tag = "ok"
                   /\ RecordOf(yielded[i].val.map, table.header, table.rows[i])
              ELSE /\ yielded[i] = Err(ExpectedErr(i))
                   /\ i = Len(yielded)
                   /\ decPc = "done"
                   /\ ~exhausted
        /\ exhausted =>
              \A i \in 1..(Len(table.rows) + 1) : ExpectedErr(i) = ""

C7_Witness ==
    /\ source = "csv" /\ decPc = "done"
    /\ Len(yielded) >= 2 /\ Last(yielded).tag = "err"
    /\ encPc = "failed"

\* C8: a data row with fewer fields than the header yields a record, not
\* an error: the record holds exactly the leading header names that have
\* a value.
C8_ShortRowOmitsKeys ==
    (source = "csv") =>
        \A i \in 1..Len(yielded) :
            ( /\ i <= Len(table.rows)
              /\ Len(table.rows[i]) < Len(table.header)
              /\ RowOk(table.rows[i])
              /\ Delivered(i) ) =>
                /\ yielded[i].tag = "ok"
                /\ Len(yielded[i].val.map) = Len(table.rows[i])
                /\ \A j \in 1..Len(table.rows[i]) :
                      /\ HasKey(yielded[i].val.map, table.header[j].val)
                      /\ Get(yielded[i].val.map, table.header[j].val)
                            = table.rows[i][j].val

\* The cell was written between quotes.
WrittenQuoted(row, j) ==
    \/ row[j].quoted
    \/ NeedsQuote(row[j].val, Written(query).delimiter, Written(query).quote)
    \/ (Len(row) = 1 /\ row[j].val = <<>>)

\* C9: the value decoded from a quoted field is the text that was written
\* between the quotes, delimiters, newlines and carriage returns included,
\* and the row it is in is still the i-th record.
C9_QuotedFieldText ==
    (source = "csv") =>
        \A i \in 1..Len(yielded) :
            yielded[i].tag = "ok" =>
                /\ i <= Len(table.rows)
                /\ \A j \in 1..Len(table.header) :
                      (j <= Len(table.rows[i]) /\ WrittenQuoted(table.rows[i], j)) =>
                          Get(yielded[i].val.map, table.header[j].val)
                              = table.rows[i][j].val

C9_Witness ==
    /\ source = "csv"
    /\ \E i \in 1..Len(yielded) :
          /\ yielded[i].tag = "ok"
          /\ \E j \in 1..Len(table.header) :
                LET v == table.rows[i][j].val
                IN  /\ Contains(v, Written(query).delimiter)
                    /\ Contains(v, LF) \/ Contains(v, CR)
                    /\ Get(yielded[i].val.map, table.header[j].val) = v

\* C10: the options the reader is built with are the characters named in
\* the query, "," and '"' for those not named; and a document written
\* with them
\* decodes to the same items as the same table written with "," and '"'
\* and decoded with no option given.
C10_OptionsIndependent ==
    (source = "csv" /\ decPc # "absent") =>
        /\ AsU8(Options.delimiter) = Written(query).delimiter
        /\ AsU8(Options.quote) = Written(query).quote
        /\ decPc = "done" =>
              yielded = DecodeAll(
                            RenderInput(table, [delimiter |-> 44, quote |-> 34],
                                        layout),
                            CsvParseOptions(<<>>, <<>>))

C10_Witness ==
    /\ source = "csv"
    /\ query = [delimiter |-> Some(Tab), quote |-> Some(SQuote)]
    /\ exhausted /\ Len(yielded) = 2
    /\ \E j \in 1..2 : WrittenQuoted(table.rows[1], j)

(* ---- C11: an early pipeline error becomes an error response ---------- *)
\* The pipeline of a request has failed before any chunk was emitted.
FailedBeforeOutput == source = "csv" /\ outStatus = "error" /\ out = <<>>

\* C11: when the pipeline fails (transport, encoding or malformed CSV)
\* before a chunk of the body has been sent, the response convert_csv gave
\* is an error response, its status 4xx or 5xx, and not a 200 response
\* with a failing body.
C11_EarlyErrorIsErrorResponse == FailedBeforeOutput => respStatus >= 400

(* ---- C12: unparsable options are refused before the pipeline --------- *)
\* A query string that is no CsvParseOptions: a parameter is given other
\* than once with a value of one character.
Unparsable(qy) ==
    \E p \in {qy.delimiter, qy.quote} :
        p # <<>> /\ ~(Len(p) = 1 /\ Len(p[1]) = 1)

\* C12: when the query string is no valid CsvParseOptions, convert_csv
\* answers 400 and nothing of the pipeline ever exists: the request body
\* is not read, there is no decoder and no encoder, nothing is pulled and
\* no chunk is produced.
C12_OptionsErrorBeforePipeline ==
    (source = "csv" /\ request.method = "POST" /\ request.path = "/"
        /\ Unparsable(query)) =>
        /\ respStatus \in {0, 400}
        /\ (respStatus = 400) => respError = "invalid query parameters"
        /\ ~bodyRead
        /\ decPc = "absent" /\ encPc = "absent"
        /\ reader = InitReader /\ pulls = 0 /\ polls = 0
        /\ yielded = <<>> /\ out = <<>> /\ outStatus = "open"

\* A request whose delimiter parameter has an empty value has been
\* answered.
C12_Witness ==
    /\ source = "csv" /\ query.delimiter = <<  <<>>  >>
    /\ request = GoodRequest
    /\ respStatus = 400 /\ InputBytes(input) # <<>>

(* ---- C13: the pipeline is deterministic ------------------------------ *)
IsPrefix(s, t) == Len(s) <= Len(t) /\ SubSeq(t, 1, Len(s)) = s

\* C13: the same call repeated (serialize_json_seq on the same items, the
\* whole pipeline on the same body and options) gives the same output
\* byte for byte: at every point of a repeated run its chunks are the
\* first chunks of the run before, and once its answer is complete, its
\* response status, its chunks, its end and its error are those of the
\* run before.
C13_Deterministic ==
    (run > 1) =>
        /\ IsPrefix(out, prevOut.chunks)
        /\ Answered =>
              [resp |-> respStatus, chunks |-> out, status |-> outStatus,
               err |-> outErr] = prevOut

\* A second run has finished with an array of two elements, another has
\* failed after its first element.
C13_Witness ==
    /\ run = 2
    /\ \/ encPc = "done" /\ Len(out) = 3 /\ source = "csv"
       \/ encPc = "failed" /\ Len(out) = 1

(* ---- C14: the first chunk -------------------------------------------- *)
\* C14: the first chunk is "[" immediately followed by the whole JSON of
\* the first element when the upstream has one, and exactly "[" when the
\* upstream is empty; it is the first thing emitted: until the upstream
\* has answered the first poll there is no chunk.
C14_FirstChunk ==
    /\ (encPc \in {"absent", "start", "first"}) => out = <<>>
    /\ (out # <<>>) =>
          IF yielded = <<>>
          THEN exhausted /\ out[1] = <<LBracket>>
          ELSE /\ yielded[1].tag = "ok" /\ ToJson(yielded[1].val).ok
               /\ out[1] = <<LBracket>> \o ToJson(yielded[1].val).bytes

\* The first chunk carries the first record of a CSV document.
C14_Witness ==
    /\ source = "csv" /\ Len(out) = 1 /\ Len(yielded) = 1
    /\ Len(out[1]) > 1 /\ encPc = "yielded"

(* ---- C15: one chunk per later element, no dangling separator --------- *)
\* How many elements the chunks hold: each chunk but a bare "[" and the
\* closing "]" holds one.
ElementChunks(chunks) ==
    Cardinality({i \in 1..Len(chunks) :
                    chunks[i] # <<LBracket>> /\ chunks[i] # ClosingChunk})

\* C15: every element after the first is one chunk, "," followed by the
\* element's whole JSON; and as long as the array is not closed, what has
\* been emitted is "[" and the JSON of the first j elements joined by
\* commas, j the number of element chunks, never with a comma at its end.
C15_SeparatorWithElement ==
    /\ \A i \in 2..Len(out) :
          (out[i] # ClosingChunk) =>
              /\ i <= Len(yielded) /\ yielded[i].tag = "ok"
              /\ out[i] = <<Comma>> \o ToJson(yielded[i].val).bytes
    /\ (out # <<>> /\ CountClosing(out) = 0) =>
          LET j == ElementChunks(out)
          IN  /\ j <= Len(yielded)
              /\ Concat(out) = <<LBracket>> \o JoinJson(SubSeq(yielded, 1, j))
              /\ Last(Concat(out)) # Comma

\* Two elements have been emitted and the array is still open.
C15_Witness ==
    /\ source = "csv" /\ Len(out) = 2 /\ encPc = "yielded"
    /\ ElementChunks(out) = 2

(* ---- C16: the encoder is demand-driven ------------------------------- *)
\* The records among the items pulled from the upstream.
RecordsPulled == Cardinality({i \in 1..Len(yielded) : yielded[i].tag = "ok"})

\* C16: the encoder pulls from its upstream only when its consumer has
\* asked for the next chunk, one item for each chunk: there are never
\* more pulls than consumer polls, an item is handed over only to an
\* encoder that waits for it, a poll answered Pending leaves the
\* consumer's poll without its item, the pulls are the chunks emitted or
\* one more, and the records pulled exceed the element chunks emitted by
\* at most one.
C16_DemandDriven ==
    /\ pulls <= polls /\ polls <= pulls + 1
    /\ (slot # NoItem) => encPc \in {"first", "rest"}
    /\ (slot \notin {NoItem, Pending}) => pulls = polls
    /\ (slot = Pending) => polls = pulls + 1
    /\ Len(out) <= pulls /\ pulls <= Len(out) + 1
    /\ RecordsPulled <= ElementChunks(out) + 1

\* The second record has been pulled for the consumer's second poll while
\* one element chunk is out.
C16_Witness ==
    /\ source = "csv" /\ polls = 2 /\ pulls = 2
    /\ slot.tag = "ok" /\ RecordsPulled = 2 /\ ElementChunks(out) = 1

(* ---- C17: the records do not depend on the chunking ------------------ *)
\* The same bytes, and the same failure after them, in a single chunk.
Whole(chunks) ==
    <<OkChunk(InputBytes(chunks))>>
        \o (IF InputFails(chunks) THEN <<ErrChunk>> ELSE <<>>)

\* The same document delivered one chunk per row.
ByRows == RenderInput(table, Written(query), [layout EXCEPT !.cut = "rows"])

\* C17: the items parse_csv_records yields depend only on the
\* concatenated bytes of its input and on the options, not on where the
\* chunks are cut: once it has finished they are the items of the same
\* bytes delivered in one chunk, and of the same bytes delivered row by
\* row, whether the cuts fall inside a field, inside a quoted field,
\* between "\r" and "\n", or leave chunks empty.
C17_ChunkingIndependent ==
    (source = "csv" /\ decPc = "done") =>
        /\ yielded = DecodeAll(Whole(input), Options)
        /\ (layout.cut # "rows") =>
              /\ InputBytes(ByRows) = InputBytes(input)
              /\ yielded = DecodeAll(ByRows, Options)

\* A document with a quoted field holding a delimiter, a newline and a
\* quote, its rows ended by "\r\n", delivered byte by byte with empty
\* chunks in between, has been decoded into its two records.
C17_Witness ==
    /\ source = "csv" /\ layout.cut = "bytes" /\ layout.eol = <<CR, LF>>
    /\ layout.fail = 0 /\ Len(table.rows) = 2
    /\ table.rows[1] = <<Q(<<ByteX>>), U(<<Comma, LF, DQuote>>)>>
    /\ decPc = "done" /\ Len(yielded) = 2
    /\ \A i \in 1..2 : yielded[i].tag = "ok"

(* ---- C18: the pipeline terminates ------------------------------------ *)
\* The output has ended: cleanly after the closing "]", or with an error.
Terminal ==
    \/ encPc = "done" /\ outStatus = "ended" /\ out # <<>>
                      /\ Last(out) = ClosingChunk
    \/ encPc = "failed" /\ outStatus = "error"

\* C18: over every input chunk stream, which is finite and ends cleanly
\* or with an error, a pipeline whose consumer keeps polling reaches a
\* terminal state: "]" emitted and the output ended, or the output ended
\* with an error.  It never stalls.
C18_Terminates == (encPc = "start") ~> Terminal

\* A pipeline over a failing three-chunk input has ended with an error,
\* another over a clean input has ended after "]".
C18_Witness ==
    /\ source = "csv" /\ Terminal /\ pulls >= 2
    /\ layout.cut = "rows" /\ Len(input) = 3
    /\ (layout.fail > 0) = (outStatus = "error")

(* ---- C19: nothing is emitted when the first item fails --------------- *)
\* C19: when the first item the encoder pulls is an error, or the first
\* element fails to serialize, no chunk is ever emitted: the output ends
\* with the error and is empty in all, and the "[" pushed to the buffer
\* stays there unsent.
C19_NoChunkOnFirstFailure ==
    (Taken # <<>> /\ Failing(Taken[1])) =>
        /\ out = <<>>
        /\ outStatus = "error" /\ encPc = "failed"
        /\ Concat(out) = <<>>
        /\ buffer # <<>> /\ buffer[1] = LBracket

\* The decoder's first item was an error (the first row is not valid
\* text, or the transport failed after the header row), or a generic
\* upstream's first value did not serialize.
C19_Witness ==
    /\ encPc = "failed" /\ Len(yielded) = 1 /\ pulls = 1
    /\ \/ source = "csv" /\ yielded[1].tag = "err"
       \/ source = "seq" /\ yielded[1] = Ok(Unserializable)

(* ---- C20: option characters are truncated to a byte ------------------ *)
\* The options as the bytes of their code points modulo 256.
ByteOptions ==
    [delimiter |-> Options.delimiter % 256, quote |-> Options.quote % 256]

\* C20: no option character is refused, and the reader's delimiter and
\* quote are the code points modulo 256: a request whose options parse
\* is never answered 400 for them, and its records are those read with
\* the truncated bytes, which for a code point of 256 or more is another
\* byte than the character, used without notice.
C20_OptionsTruncated ==
    (source = "csv" /\ request = GoodRequest /\ ~Unparsable(query)) =>
        /\ respStatus \in {0, 200}
        /\ (decPc = "done") => yielded = DecodeAll(input, ByteOptions)

\* A request naming U+012C as delimiter has had its two-column document
\* split at ",".
C20_Witness ==
    /\ source = "csv" /\ query.delimiter = Some(WideComma)
    /\ Options.delimiter # ByteOptions.delimiter
    /\ respStatus = 200 /\ decPc = "done" /\ layout.fail = 0
    /\ Len(table.header) = 2 /\ Len(table.rows) = 1
    /\ Len(yielded) = 1 /\ yielded[1].tag = "ok"
    /\ Len(yielded[1].val.map) = 2

====
